---- MODULE Spec2Model ----
(***************************************************************************)
(* Knowledge-graph embedding session of graphistry/embed_utils.py:         *)
(* HeterographEmbedModuleMixin (embed, _preprocess_embedding_data,         *)
(* _build_graph, _train_embedding, _eval, predict_links) and               *)
(* SubgraphIterator (__getitem__, _sample_neg).                            *)
(*                                                                         *)
(* Conventions.  A Python attribute that may be None or absent is an       *)
(* optional value: None is <<>> and a present value v is <<v>>.  A dict is *)
(* a function.  Row and tensor positions are 0-based as in the source;     *)
(* TLA+ sequences are 1-based, so row i of a tensor is element i+1.        *)
(* Fractions (train_split, thresholds, probabilities) are percentages.     *)
(* The session is the object embed works on and returns (res, lines        *)
(* 292-295): the caller's object when inplace is set, a copy of it         *)
(* otherwise.  A later call is made on that object; after a call that      *)
(* raised, that is a later call on the object of an inplace call.          *)
(***************************************************************************)
EXTENDS Integers, Sequences, FiniteSets, TLC

\* ------------------------------------------------------------------ bounds
MaxEdges == 2
MaxEpochs == 1
MaxNodeRows == 3
MaxSample == 2
MaxRows == 1
MaxSteps == 4

\* ---------------------------------------------------------- optional values
None == <<>>
Some(v) == <<v>>
Val(o) == o[1]

Range(s) == {s[i] : i \in DOMAIN s}

\* ------------------------------------------------------------ input domains
RelCols == {"r1", "r2"}
Dims == {16, 32}
TrainSplits == {50, 80, 100}
ProtocolNames == {"TransE", "DistMult", "RotatE"}
ProtoArgs == {"DistMult", "TransE", "Bogus"}

\* Row i of the edge tables used as data: a cycle over three node labels with
\* two relation columns whose label sets differ.
EdgeRow(i) ==
    [src |-> ((i - 1) % 3) + 1,
     dst |-> (i % 3) + 1,
     r1  |-> IF i % 3 = 0 THEN "likes" ELSE "knows",
     r2  |-> IF i % 2 = 1 THEN "x" ELSE "y"]

EdgeTable(n) == [i \in 1..n |-> EdgeRow(i)]

EdgeTables == {EdgeTable(n) : n \in 1..MaxEdges}

\* Node tables of the main specification: absent, all labels, a table that
\* filters edges out.
NodeTables == {None, Some(<<1, 2, 3>>), Some(<<1, 2>>)}

\* Node tables of the registry specification: absent, or any column of at most
\* MaxNodeRows labels, repeated labels included.
NodeLabels == {1, 2, 3}
NodeColumns == UNION {[1..n -> NodeLabels] : n \in 1..MaxNodeRows}

Thresholds == {0, 95}
Probs == {50, 95, 99}

\* ------------------------------------------------------------------- state
VARIABLES
    _nodes, _node, _edges,
    _relation, _use_feat, _kg_embed_dim, _train_split,
    _node2id, _id2node, _relation2id, _id2relation,
    triplets, _num_nodes, _num_rels,
    train_idx, test_idx, g_dgl,
    _embed_model, _kg_embeddings,
    ret, item, result_df

dataVars == <<_nodes, _node, _edges>>
configVars == <<_relation, _use_feat, _kg_embed_dim, _train_split>>
registryVars == <<_node2id, _id2node, _relation2id, _id2relation, _num_nodes, _num_rels>>
splitVars == <<train_idx, test_idx>>
modelVars == <<_embed_model, _kg_embeddings>>
sessionVars == <<dataVars, configVars, registryVars, triplets, splitVars, g_dgl, modelVars>>
vars == <<sessionVars, ret, item, result_df>>

\* ---------------------------------------------------- pandas-like helpers
RECURSIVE UniqueFrom(_, _)
UniqueFrom(s, acc) ==
    IF s = <<>> THEN acc
    ELSE UniqueFrom(Tail(s),
                    IF Head(s) \in Range(acc) THEN acc ELSE Append(acc, Head(s)))

\* Series.unique(): distinct values in order of first occurrence.
Unique(s) == UniqueFrom(s, <<>>)

\* {v: idx for idx, v in enumerate(s)}: a later duplicate overwrites.
LastIndex(s, v) == CHOOSE i \in DOMAIN s : s[i] = v /\ \A j \in DOMAIN s : s[j] = v => j <= i
EnumerateToId(s) == [v \in Range(s) |-> LastIndex(s, v) - 1]

\* {idx: v for idx, v in enumerate(s)}
EnumerateFromId(s) == [i \in 0..(Len(s) - 1) |-> s[i + 1]]

\* materialize_nodes(): the node table made of the edge endpoints.
MaterializeNodes(edges) ==
    Unique([i \in 1..Len(edges) |-> edges[i].src] \o [i \in 1..Len(edges) |-> edges[i].dst])

\* The node series chosen by the three branches of lines 97-103.
NodeSeries(nodes, node, edges) ==
    IF node /\ nodes # None THEN Val(nodes)
    ELSE IF ~node /\ nodes # None THEN [i \in 1..Len(Val(nodes)) |-> i - 1]
    ELSE MaterializeNodes(edges)

\* edges[edges[src].isin(nodes) & edges[dst].isin(nodes)]
FilterEdges(edges, nodes) ==
    SelectSeq(edges, LAMBDA e : e.src \in Range(nodes) /\ e.dst \in Range(nodes))

\* Registries, triplet matrix and counts of _preprocess_embedding_data.
PreprocessRegistry(nodes_df, node, edges_df, relation) ==
    LET nodes == NodeSeries(nodes_df, node, edges_df)
        edges == FilterEdges(edges_df, nodes)
        relations == Unique([i \in 1..Len(edges) |-> edges[i][relation]])
        node2id == EnumerateToId(nodes)
        relation2id == EnumerateToId(relations)
    IN [nodes |-> nodes,
        node2id |-> node2id,
        relation2id |-> relation2id,
        id2node |-> EnumerateFromId(nodes),
        id2relation |-> EnumerateFromId(relations),
        triplets |-> [i \in 1..Len(edges) |->
                        <<node2id[edges[i].src], relation2id[edges[i][relation]], node2id[edges[i].dst]>>],
        num_nodes |-> Cardinality(DOMAIN node2id),
        num_rels |-> Cardinality(DOMAIN relation2id)]

\* ------------------------------------------------------------------- split
\* The guard of line 124 without its test: every preprocessing run splits.
NeedSplit_Always(idx, stored_split, train_split) == TRUE

\* The guard of line 124.
NeedSplit(idx, stored_split, train_split) == idx = None \/ stored_split # Some(train_split)

\* int(train_split * len(triplets))
TrainSize(train_split, n) == (train_split * n) \div 100

\* torch.utils.data.random_split: the train indices are any train_size of the
\* row indices, the test indices are the rest.  Index lists are kept as sets.
RandomSplits(n, train_size) == {S \in SUBSET (0..(n - 1)) : Cardinality(S) = train_size}

\* ------------------------------------------------------------------- graph
RECURSIVE SortedSeq(_)
SortedSeq(S) ==
    IF S = {} THEN <<>>
    ELSE LET m == CHOOSE x \in S : \A y \in S : x <= y IN <<m>> \o SortedSeq(S \ {m})

\* _build_graph: the graph over the training triplets, or the error it raises.
BuildGraph(trip, tr_idx, num_nodes) ==
    LET rows == IF tr_idx # None THEN SortedSeq(Val(tr_idx)) ELSE [i \in 1..Len(trip) |-> i - 1]
        edges == [k \in 1..Len(rows) |-> trip[rows[k] + 1]]
    IN IF \E k \in DOMAIN rows : rows[k] >= Len(trip)
         THEN [error |-> "IndexError", g |-> None]
       ELSE IF \E k \in DOMAIN edges : edges[k][1] >= num_nodes \/ edges[k][3] >= num_nodes
         THEN [error |-> "DGLError", g |-> None]
       ELSE [error |-> "", g |-> Some([num_nodes |-> num_nodes, edges |-> edges])]

\* ---------------------------------------------------------------- training
\* _init_model: HeteroEmbed(res._num_nodes, res._num_rels, res._kg_embed_dim,
\* proto=res.proto), parameters freshly initialised.
InitModel(num_nodes, num_rels, dim, proto) ==
    [num_nodes |-> num_nodes, num_rels |-> num_rels, dim |-> dim, proto |-> proto,
     params |-> "init"]

\* Lines 181-184: the model that is optimized.  _embed_model is set in
\* __init__, so hasattr(res, "_embed_model") is true.
PickModel(fresh, embed_model, build_new) ==
    IF ~build_new THEN embed_model ELSE Some(fresh)

\* _eval as called at line 214: "" when a score is computed, else the error.
Eval(trip, te_idx) ==
    IF te_idx = None THEN "TypeError"
    ELSE IF \E i \in Val(te_idx) : i >= Len(trip) THEN "IndexError"
    ELSE IF Val(te_idx) = {} THEN "ZeroDivisionError"
    ELSE ""

\* _train_embedding on session s with the scoring function proto.
\* The defaults of batch_size and num_steps in the signature of embed.
DefaultBatchSize == 32
DefaultNumSteps == 50

\* Lines 161-164: the loader groups the num_steps items of the iterator in
\* batches of batch_size, the last one shorter, and collate_fn keeps the
\* first item of each batch: one training step per batch.
StepsPerEpoch(num_steps, batch_size) == (num_steps + batch_size - 1) \div batch_size

TrainEmbedding(s, build_new, proto, epochs, evaluate, batch_size, num_steps) ==
    LET fresh == InitModel(Val(s.num_nodes), Val(s.num_rels), Val(s.kg_embed_dim), proto)
        model == PickModel(fresh, s.embed_model, build_new)
        g == Val(s.g_dgl)
        trained == [Val(model) EXCEPT !.params = "trained"]
        stored == [s EXCEPT !.embed_model = Some(trained),
                            !.kg_embeddings = Some([rows |-> g.num_nodes, dim |-> trained.dim])]
        ev == IF evaluate /\ s.train_idx # None THEN Eval(Val(s.triplets), s.test_idx) ELSE ""
    IN IF s.g_dgl = None
         THEN [s |-> s, outcome |-> "AttributeError", optimized |-> None, epochs_done |-> 0,
               steps |-> 0, items |-> 0]
       ELSE IF model = None
         THEN [s |-> s, outcome |-> "AttributeError", optimized |-> None, epochs_done |-> 0,
               steps |-> 0, items |-> 0]
       ELSE IF epochs = 0
         THEN [s |-> s, outcome |-> "returned", optimized |-> model, epochs_done |-> 0,
               steps |-> 0, items |-> 0]
       ELSE IF Len(g.edges) = 0
         THEN [s |-> s, outcome |-> "ValueError", optimized |-> model, epochs_done |-> 0,
               steps |-> 0, items |-> 0]
       ELSE IF ev # ""
         THEN [s |-> stored, outcome |-> ev, optimized |-> model, epochs_done |-> 0,
               steps |-> StepsPerEpoch(num_steps, batch_size), items |-> num_steps]
       ELSE [s |-> stored, outcome |-> "returned", optimized |-> model, epochs_done |-> epochs,
             steps |-> epochs * StepsPerEpoch(num_steps, batch_size),
             items |-> epochs * num_steps]

\* ------------------------------------------------------------------- embed
Session ==
    [nodes |-> _nodes, node |-> _node, edges |-> _edges,
     relation |-> _relation, use_feat |-> _use_feat, kg_embed_dim |-> _kg_embed_dim,
     train_split |-> _train_split,
     node2id |-> _node2id, id2node |-> _id2node,
     relation2id |-> _relation2id, id2relation |-> _id2relation,
     triplets |-> triplets, num_nodes |-> _num_nodes, num_rels |-> _num_rels,
     train_idx |-> train_idx, test_idx |-> test_idx, g_dgl |-> g_dgl,
     embed_model |-> _embed_model, kg_embeddings |-> _kg_embeddings]

\* Lines 297-308: requires_new_model.
RequiresNewModel(s, relation, use_feat, embedding_dim) ==
    \/ s.relation # Some(relation)
    \/ s.use_feat # use_feat
    \/ s.kg_embed_dim # Some(embedding_dim)

\* Line 320 without the test of _build_new_embedding_model.
NeedsPreprocess_FirstOnly(s, requires_new_model) == s.triplets = None

\* Line 320: whether the registries, triplets and graph are rebuilt.
NeedsPreprocess(s, requires_new_model) == s.triplets = None \/ requires_new_model

\* _preprocess_embedding_data on session s; split is the outcome of the
\* random partition, used when the guard of line 124 asks for one.
PreprocessEmbeddingData(s, train_split, split) ==
    LET P == PreprocessRegistry(s.nodes, s.node, s.edges, Val(s.relation))
        n == Len(P.triplets)
        resplit == NeedSplit(s.train_idx, s.train_split, train_split)
    IN [s EXCEPT !.nodes = Some(IF s.node /\ s.nodes # None THEN Val(s.nodes)
                                 ELSE IF s.nodes # None THEN Val(s.nodes)
                                 ELSE P.nodes),
                 !.node = IF s.nodes = None THEN TRUE ELSE s.node,
                 !.node2id = Some(P.node2id), !.id2node = Some(P.id2node),
                 !.relation2id = Some(P.relation2id), !.id2relation = Some(P.id2relation),
                 !.triplets = Some(P.triplets),
                 !.num_nodes = Some(P.num_nodes), !.num_rels = Some(P.num_rels),
                 !.train_idx = IF resplit THEN Some(split) ELSE s.train_idx,
                 !.test_idx = IF resplit THEN Some((0..(n - 1)) \ split) ELSE s.test_idx]

\* The partitions random_split can return for the call, {{}} when the guard
\* of line 124 asks for none.
SplitChoices(s, relation, train_split) ==
    LET n == Len(PreprocessRegistry(s.nodes, s.node, s.edges, relation).triplets)
    IN IF NeedSplit(s.train_idx, s.train_split, train_split)
         THEN RandomSplits(n, TrainSize(train_split, n))
         ELSE {{}}

\* embed(): every result the call can have on session s.  A result is the
\* session afterwards and the record of what the call did.
EmbedLoaderResults(s, relation, proto, embedding_dim, use_feat, epochs, train_split, evaluate, batch_size, num_steps) ==
    LET requires_new_model == RequiresNewModel(s, relation, use_feat, embedding_dim)
        s1 == [s EXCEPT !.relation = Some(relation), !.use_feat = use_feat,
                        !.kg_embed_dim = Some(embedding_dim),
                        !.train_split = Some(train_split)]
        rebuild == NeedsPreprocess(s1, requires_new_model)
        call == [op |-> "embed", epochs |-> epochs, evaluate |-> evaluate,
                 differs |-> {a \in {"relation", "train_split"} : s[a] # s1[a]},
                 requires_new_model |-> requires_new_model,
                 rebuilt |-> FALSE, split |-> FALSE,
                 outcome |-> "", optimized |-> None, epochs_done |-> 0,
                 proto |-> proto,
                 known_proto |-> proto \in ProtocolNames,
                 num_steps |-> num_steps, steps |-> 0, items |-> 0]
        Finish(s2, c) ==
            LET T == TrainEmbedding(s2, requires_new_model, proto, epochs, evaluate,
                                    batch_size, num_steps)
            IN [s |-> T.s,
                ret |-> [c EXCEPT !.outcome = T.outcome, !.optimized = T.optimized,
                                  !.epochs_done = T.epochs_done,
                                  !.steps = T.steps, !.items = T.items]]
    IN IF proto \notin ProtocolNames
         THEN {[s |-> s1, ret |-> [call EXCEPT !.outcome = "KeyError"]]}
       ELSE IF rebuild
         THEN {LET s2 == PreprocessEmbeddingData(s1, train_split, split)
                   B == BuildGraph(Val(s2.triplets), s2.train_idx, Val(s2.num_nodes))
                   c == [call EXCEPT !.rebuilt = TRUE,
                                     !.split = NeedSplit(s1.train_idx, s1.train_split, train_split)]
               IN IF B.error # ""
                    THEN [s |-> s2, ret |-> [c EXCEPT !.outcome = B.error]]
                    ELSE Finish([s2 EXCEPT !.g_dgl = B.g], c)
               : split \in SplitChoices(s1, relation, train_split)}
       ELSE {Finish(s1, call)}

\* embed() with the default batch_size and num_steps (lines 238, 241).
EmbedResults(s, relation, proto, embedding_dim, use_feat, epochs, train_split, evaluate) ==
    EmbedLoaderResults(s, relation, proto, embedding_dim, use_feat, epochs, train_split,
                       evaluate, DefaultBatchSize, DefaultNumSteps)

SetSession(s) ==
    /\ _nodes' = s.nodes /\ _node' = s.node /\ _edges' = s.edges
    /\ _relation' = s.relation /\ _use_feat' = s.use_feat
    /\ _kg_embed_dim' = s.kg_embed_dim /\ _train_split' = s.train_split
    /\ _node2id' = s.node2id /\ _id2node' = s.id2node
    /\ _relation2id' = s.relation2id /\ _id2relation' = s.id2relation
    /\ triplets' = s.triplets /\ _num_nodes' = s.num_nodes /\ _num_rels' = s.num_rels
    /\ train_idx' = s.train_idx /\ test_idx' = s.test_idx /\ g_dgl' = s.g_dgl
    /\ _embed_model' = s.embed_model /\ _kg_embeddings' = s.kg_embeddings

\* The session after __init__ (lines 60-89) on a graph with the edge table
\* bound and the node table nodes, None when no node table is bound.
NewSession(nodes, node, edges) ==
    [nodes |-> nodes, node |-> node, edges |-> edges,
     relation |-> None, use_feat |-> FALSE, kg_embed_dim |-> None,
     train_split |-> None,
     node2id |-> None, id2node |-> None, relation2id |-> None, id2relation |-> None,
     triplets |-> None, num_nodes |-> None, num_rels |-> None,
     train_idx |-> None, test_idx |-> None, g_dgl |-> None,
     embed_model |-> None, kg_embeddings |-> None]

SessionIs(s) ==
    /\ _nodes = s.nodes /\ _node = s.node /\ _edges = s.edges
    /\ _relation = s.relation /\ _use_feat = s.use_feat
    /\ _kg_embed_dim = s.kg_embed_dim /\ _train_split = s.train_split
    /\ _node2id = s.node2id /\ _id2node = s.id2node
    /\ _relation2id = s.relation2id /\ _id2relation = s.id2relation
    /\ triplets = s.triplets /\ _num_nodes = s.num_nodes /\ _num_rels = s.num_rels
    /\ train_idx = s.train_idx /\ test_idx = s.test_idx /\ g_dgl = s.g_dgl
    /\ _embed_model = s.embed_model /\ _kg_embeddings = s.kg_embeddings

NoCall(op) ==
    [op |-> op, epochs |-> 0, evaluate |-> FALSE, differs |-> {},
     requires_new_model |-> FALSE, rebuilt |-> FALSE, split |-> FALSE,
     outcome |-> "", optimized |-> None, epochs_done |-> 0,
     proto |-> "", known_proto |-> TRUE, num_steps |-> 0, steps |-> 0, items |-> 0]

Embed(relation, proto, embedding_dim, use_feat, epochs, train_split, evaluate) ==
    \E r \in EmbedResults(Session, relation, proto, embedding_dim, use_feat,
                          epochs, train_split, evaluate) :
        /\ SetSession(r.s)
        /\ ret' = r.ret
        /\ UNCHANGED <<item, result_df>>

\* embed(relation, proto, embedding_dim, use_feat, epochs=...): epochs is 0
\* or the default, train_split and evaluate keep the defaults of the
\* signature (lines 237, 239, 245).
EmbedConfig ==
    \E relation \in RelCols, proto \in ProtoArgs, embedding_dim \in Dims,
       use_feat \in BOOLEAN, epochs \in {0, 2} :
        Embed(relation, proto, embedding_dim, use_feat, epochs, 80, TRUE)

\* embed(relation, epochs=..., train_split=..., evaluate=...): proto,
\* embedding_dim and use_feat keep the defaults of the signature (lines 233-235).
EmbedSplit ==
    \E relation \in RelCols, epochs \in 0..MaxEpochs, train_split \in TrainSplits,
       evaluate \in BOOLEAN :
        Embed(relation, "DistMult", 32, FALSE, epochs, train_split, evaluate)

\* embed(relation): every other argument keeps the default of the signature
\* (lines 233-245).
EmbedDefault ==
    \E relation \in RelCols :
        Embed(relation, "DistMult", 32, FALSE, 2, 80, TRUE)

\* The caller binds another edge table; the derived object carries every
\* other attribute of the session.
BindEdges ==
    \E e \in EdgeTables :
        /\ e # _edges
        /\ _edges' = e
        /\ ret' = NoCall("edges")
        /\ UNCHANGED <<_nodes, _node, configVars, registryVars, triplets, splitVars,
                       g_dgl, modelVars, item, result_df>>

Init ==
    /\ \E e \in EdgeTables, n \in NodeTables : SessionIs(NewSession(n, n # None, e))
    /\ ret = NoCall("init")
    /\ item = None
    /\ result_df = None

\* Sessions whose calls vary the configuration of the model.
Next == EmbedConfig

Spec == Init /\ [][Next]_vars

\* Sessions whose calls vary the split fraction and the evaluation flag, on
\* edge tables the caller may rebind.
NextSplit == EmbedSplit \/ BindEdges

SpecSplit == Init /\ [][NextSplit]_vars

\* Edge tables of a graph with the single node 1: every row is a self-loop.
SelfLoopTables ==
    {[i \in 1..n |-> [EdgeRow(i) EXCEPT !.src = 1, !.dst = 1]] : n \in 1..MaxEdges}

\* embed(relation, proto, epochs=..., train_split=..., evaluate=False) with
\* at least one epoch.
EmbedFailFast ==
    \E relation \in RelCols, proto \in ProtoArgs, epochs \in 1..MaxEpochs,
       train_split \in TrainSplits :
        Embed(relation, proto, 32, FALSE, epochs, train_split, FALSE)

\* Sessions on graphs of one node and of several nodes, without node table.
InitFailFast ==
    /\ \E e \in SelfLoopTables \cup EdgeTables : SessionIs(NewSession(None, FALSE, e))
    /\ ret = NoCall("init")
    /\ item = None
    /\ result_df = None

NextFailFast == EmbedFailFast

SpecFailFast == InitFailFast /\ [][NextFailFast]_vars

\* embed(relation, epochs=..., batch_size=..., num_steps=..., evaluate=...).
EmbedLoader ==
    \E relation \in RelCols, epochs \in 1..MaxEpochs, batch_size \in 1..MaxSteps,
       num_steps \in 1..MaxSteps, evaluate \in BOOLEAN :
        \E r \in EmbedLoaderResults(Session, relation, "DistMult", 32, FALSE, epochs, 80,
                                    evaluate, batch_size, num_steps) :
            /\ SetSession(r.s)
            /\ ret' = r.ret
            /\ UNCHANGED <<item, result_df>>

NextLoader == EmbedLoader

SpecLoader == Init /\ [][NextLoader]_vars

\* Sessions on node tables of every shape, embedded with default arguments.
InitRegistry ==
    /\ \E e \in EdgeTables :
          \/ SessionIs(NewSession(None, FALSE, e))
          \/ \E c \in NodeColumns, node \in BOOLEAN : SessionIs(NewSession(Some(c), node, e))
    /\ ret = NoCall("init")
    /\ item = None
    /\ result_df = None

NextRegistry == EmbedDefault

SpecRegistry == InitRegistry /\ [][NextRegistry]_vars

\* -------------------------------------------------------- SubgraphIterator
\* _sample_neg with the tail replaced under the condition of the head.
SampleNeg_BothReplaced(T, h_o_t, random_h, random_t) ==
    LET n == Len(T)
        neg_triplets == [i \in 1..n |->
                           <<IF h_o_t[i] = 0 THEN random_h[i] ELSE T[i][1], T[i][2],
                             IF h_o_t[i] = 0 THEN random_t[i] ELSE T[i][3]>>]
    IN [all_triplets |-> T \o neg_triplets,
        labels |-> [i \in 1..(2 * n) |-> IF i <= n THEN 1 ELSE 0]]

\* _sample_neg(triplets, num_nodes) for the draws h_o_t, random_h, random_t
\* of lines 515-518.
SampleNeg(T, h_o_t, random_h, random_t) ==
    LET n == Len(T)
        neg_h == [i \in 1..n |-> IF h_o_t[i] = 0 THEN random_h[i] ELSE T[i][1]]
        neg_t == [i \in 1..n |-> IF h_o_t[i] = 1 THEN random_t[i] ELSE T[i][3]]
        neg_triplets == [i \in 1..n |-> <<neg_h[i], T[i][2], neg_t[i]>>]
    IN [all_triplets |-> T \o neg_triplets,
        labels |-> [i \in 1..(2 * n) |-> IF i <= n THEN 1 ELSE 0]]

\* __getitem__ with the node count of the mini-batch graph taken from the
\* sampled endpoints, the ids left as they are.
GetItemResult_LocalCount(g, eids, h_o_t, random_h, random_t) ==
    LET T == [k \in 1..Len(eids) |-> g.edges[eids[k] + 1]]
        S == SampleNeg(T, h_o_t, random_h, random_t)
    IN [error |-> "", eids |-> eids, triplets |-> T,
        sub_g |-> [num_nodes |-> Cardinality({T[i][1] : i \in DOMAIN T} \cup {T[i][3] : i \in DOMAIN T}),
                   edges |-> S.all_triplets],
        samples |-> S.all_triplets, labels |-> S.labels]

\* __getitem__ of SubgraphIterator(g, sample_size, num_steps) for the sampled
\* edge ids eids and the draws of _sample_neg.
GetItemResult(g, eids, h_o_t, random_h, random_t) ==
    LET T == [k \in 1..Len(eids) |-> g.edges[eids[k] + 1]]
        S == SampleNeg(T, h_o_t, random_h, random_t)
    IN [error |-> "", eids |-> eids, triplets |-> T,
        sub_g |-> [num_nodes |-> g.num_nodes, edges |-> S.all_triplets],
        samples |-> S.all_triplets, labels |-> S.labels]

\* One item of the iterator _init_model builds on res.g_dgl.  The iterator
\* has no state of its own that an item changes, so one item is observed.
GetItem ==
    /\ g_dgl # None
    /\ item = None
    /\ \E sample_size \in 1..MaxSample :
          LET g == Val(g_dgl)
              ids == 1..sample_size
          IN IF Len(g.edges) = 0
               THEN item' = Some([error |-> "ValueError"])
               ELSE \E eids \in [ids -> 0..(Len(g.edges) - 1)],
                       h_o_t \in [ids -> {0, 1}],
                       random_h \in [ids -> 0..(g.num_nodes - 1)],
                       random_t \in [ids -> 0..(g.num_nodes - 1)] :
                        item' = Some(GetItemResult(g, eids, h_o_t, random_h, random_t))
    /\ ret' = NoCall("getitem")
    /\ UNCHANGED <<sessionVars, result_df>>

\* Sessions as embed leaves them when it reaches _train_embedding.
InitBatch ==
    /\ \E e \in EdgeTables, train_split \in {80, 100} :
          \E r \in EmbedResults(NewSession(None, FALSE, e), "r1", "DistMult", 32, FALSE,
                                0, train_split, TRUE) :
              SessionIs(r.s)
    /\ ret = NoCall("init")
    /\ item = None
    /\ result_df = None

NextBatch == GetItem

SpecBatch == InitBatch /\ [][NextBatch]_vars

\* ------------------------------------------------------------ predict_links
\* self._node2id.values(): the ids in the order their labels were inserted.
AllNodes(id2node, node2id) ==
    LET labels == Unique([i \in 1..Cardinality(DOMAIN id2node) |-> id2node[i - 1]])
    IN [k \in 1..Len(labels) |-> node2id[labels[k]]]

RECURSIVE Explode(_, _)
\* test_df.explode(pred): every input row against every destination id.
Explode(rows, all_nodes) ==
    IF rows = <<>> THEN <<>>
    ELSE [k \in 1..Len(all_nodes) |-> <<Head(rows)[1], Head(rows)[2], all_nodes[k]>>]
         \o Explode(Tail(rows), all_nodes)

\* A cell of a frame that holds no id: Series.map gives the float NaN for a
\* label the dict does not have (lines 356-357, 372-374).  NaN is equal to
\* no id.
NaN == -1

\* Series.map(d): the value of label k, NaN when d has no key k.
MapGet(d, k) == IF k \in DOMAIN d THEN d[k] ELSE NaN

\* What the conversion of a float32 NaN to int64 gives (line 365); C leaves
\* it undefined: 0 with a saturating convert instruction, the smallest int64
\* with the x86 convert instruction.
NaNCasts == {"zero", "int64_min"}

\* Line 363: a candidate is kept when its destination is not its source.
NotSelfLoop_Any(c) == TRUE

NotSelfLoop(c) == c[1] # c[3]

\* Lines 356-363: the candidate rows of the frame, as ids or NaN.
CandidateFrame(s, test_df) ==
    SelectSeq(Explode([i \in 1..Len(test_df) |->
                          <<MapGet(Val(s.node2id), test_df[i].src),
                            MapGet(Val(s.relation2id), test_df[i].rel)>>],
                      AllNodes(Val(s.id2node), Val(s.node2id))),
              NotSelfLoop)

\* Line 365: a candidate row as the int64 row given to _score.
AsLong(c, nan_cast) ==
    [j \in 1..3 |-> IF c[j] # NaN THEN c[j] ELSE IF nan_cast = "zero" THEN 0 ELSE NaN]

\* predict_links(test_df, src, rel, threshold, anomalous) on session s, where
\* nan_cast is what the int64 conversion makes of a NaN and prob is what
\* _score returns for each row it is given.
PredictLinks(s, test_df, threshold, anomalous, nan_cast, prob) ==
    LET id2node == Val(s.id2node)
        id2relation == Val(s.id2relation)
        candidates == CandidateFrame(s, test_df)
        scored == [k \in 1..Len(candidates) |-> AsLong(candidates[k], nan_cast)]
        \* lines 367-370: the rows that pass the threshold
        passing == SelectSeq(candidates,
                             LAMBDA c : IF anomalous THEN prob[AsLong(c, nan_cast)] <= threshold
                                                     ELSE prob[AsLong(c, nan_cast)] >= threshold)
        \* lines 371-376: the returned frame is built from test_df
        returned == candidates
    IN IF \E k \in DOMAIN scored : \E j \in 1..3 : scored[k][j] = NaN
         \* line 462: the smallest int64 is no row of the embedding tensors
         THEN [error |-> "IndexError", test_df |-> test_df]
         ELSE [error |-> "", test_df |-> test_df, threshold |-> threshold,
               anomalous |-> anomalous, prob |-> prob,
               candidates |-> candidates,
               scored |-> scored,
               ids |-> returned,
               rows |-> [k \in 1..Len(returned) |->
                           <<MapGet(id2node, returned[k][1]),
                             IF returned[k][2] = NaN THEN "NaN"
                             ELSE id2relation[returned[k][2]],
                             id2node[returned[k][3]]>>]]

\* The rows a predict_links call on session s gives to _score.
Candidates(s, test_df, nan_cast) ==
    {AsLong(c, nan_cast) : c \in Range(CandidateFrame(s, test_df))}

\* Input frames: rows of labels the registries know.
TestFrames(s) ==
    UNION {[1..n -> [src : DOMAIN Val(s.node2id), rel : DOMAIN Val(s.relation2id)]]
             : n \in 1..MaxRows}

\* One predict_links call is observed; the call changes nothing of the
\* session.  Without a stored embedding snapshot _score raises (line 460).
PredictLinksCall ==
    /\ triplets # None
    /\ result_df = None
    /\ IF _kg_embeddings = None
         THEN result_df' = Some([error |-> "AttributeError"])
         ELSE \E test_df \in TestFrames(Session), threshold \in Thresholds,
                 anomalous \in BOOLEAN, nan_cast \in NaNCasts :
                \E prob \in [Candidates(Session, test_df, nan_cast) -> Probs] :
                    result_df' = Some(PredictLinks(Session, test_df, threshold, anomalous,
                                                  nan_cast, prob))
    /\ ret' = NoCall("predict_links")
    /\ UNCHANGED <<sessionVars, item>>

\* Sessions as a default embed call leaves them.
InitPredict ==
    /\ \E e \in EdgeTables, n \in NodeTables, relation \in RelCols :
          \E r \in EmbedResults(NewSession(n, n # None, e), relation, "DistMult", 32, FALSE,
                                2, 80, TRUE) :
              SessionIs(r.s)
    /\ ret = NoCall("init")
    /\ item = None
    /\ result_df = None

NextPredict == PredictLinksCall

SpecPredict == InitPredict /\ [][NextPredict]_vars

\* Labels of an input frame that no registry holds.
UnseenNode == 4
UnseenRel == "unseen"

\* The rows of the frame whose source and relation labels the registries hold.
KnownRows(s, test_df) ==
    SelectSeq(test_df, LAMBDA row : /\ row.src \in DOMAIN Val(s.node2id)
                                    /\ row.rel \in DOMAIN Val(s.relation2id))

\* Input frames with a row whose source or relation label is unseen, alone
\* or after rows of known labels.
UnseenFrames(s) ==
    LET unseen == {[src |-> UnseenNode, rel |-> r] : r \in DOMAIN Val(s.relation2id)}
                  \cup {[src |-> n, rel |-> UnseenRel] : n \in DOMAIN Val(s.node2id)}
    IN {<<u>> : u \in unseen} \cup {f \o <<u>> : f \in TestFrames(s), u \in unseen}

\* One predict_links call on a frame with an unseen label is observed.
PredictLinksUnseen ==
    /\ triplets # None /\ _kg_embeddings # None
    /\ result_df = None
    /\ \E test_df \in UnseenFrames(Session), threshold \in Thresholds,
          nan_cast \in NaNCasts :
           \E prob \in [Candidates(Session, test_df, nan_cast) -> Probs] :
               result_df' = Some(PredictLinks(Session, test_df, threshold, FALSE,
                                             nan_cast, prob))
    /\ ret' = NoCall("predict_links")
    /\ UNCHANGED <<sessionVars, item>>

NextUnseen == PredictLinksUnseen

SpecUnseen == InitPredict /\ [][NextUnseen]_vars

\* -------------------------------------------------------- predict_links_all
\* The filters a caller passes: None, or a series of ids.
IdFilters(ids) == {None} \cup {Some(f) : f \in (SUBSET ids) \ {{}}}

\* fetch_triplets_for_inference (lines 408-426).  The function assigns the
\* name relations (line 414), which makes it a local name of the function;
\* line 413 reads it before any assignment, on every call, whatever the
\* three arguments are.
FetchTripletsForInference(all_nodes, all_relations, source, relation, destination) ==
    LET source1 == IF source = None THEN Some(all_nodes) ELSE source
        relations == None
        bound == FALSE
    IN IF ~bound
         THEN [error |-> "UnboundLocalError", triplets |-> {}]
         ELSE LET relation1 == IF relations = None THEN Some(all_relations) ELSE relation
                  destination1 == IF destination = None THEN Some(all_nodes) ELSE destination
              IN [error |-> "",
                  triplets |-> {c \in Val(source1) \X Val(relation1) \X Val(destination1) :
                                  c[1] # c[3]}]

\* predict_links_all(source, relation, destination) on session s (lines
\* 405-429): the candidates given to _score.
PredictLinksAll(s, source, relation, destination) ==
    LET all_nodes == {Val(s.node2id)[n] : n \in DOMAIN Val(s.node2id)}
        all_relations == {Val(s.relation2id)[r] : r \in DOMAIN Val(s.relation2id)}
        F == FetchTripletsForInference(all_nodes, all_relations, source, relation, destination)
    IN [op |-> "predict_links_all", source |-> source, relation |-> relation,
        destination |-> destination, error |-> F.error, scored |-> F.triplets]

\* One predict_links_all call is observed.
PredictLinksAllCall ==
    /\ triplets # None
    /\ result_df = None
    /\ \E source \in IdFilters({Val(_node2id)[n] : n \in DOMAIN Val(_node2id)}),
          relation \in IdFilters({Val(_relation2id)[r] : r \in DOMAIN Val(_relation2id)}),
          destination \in IdFilters({Val(_node2id)[n] : n \in DOMAIN Val(_node2id)}) :
           result_df' = Some(PredictLinksAll(Session, source, relation, destination))
    /\ ret' = NoCall("predict_links_all")
    /\ UNCHANGED <<sessionVars, item>>

NextAll == PredictLinksAllCall

SpecAll == InitPredict /\ [][NextAll]_vars

\* ================================================================== claims
\* An embed call changed one of the three stored values that line 298-306 compare.
ConfigChanged ==
    \/ _relation' # _relation
    \/ _use_feat' # _use_feat
    \/ _kg_embed_dim' # _kg_embed_dim

\* The registries, triplets and snapshot after the step are the ones
\* _preprocess_embedding_data and _build_graph compute from the data.
RebuiltFromData ==
    LET P == PreprocessRegistry(_nodes, _node, _edges, Val(_relation'))
    IN /\ _node2id' = Some(P.node2id) /\ _id2node' = Some(P.id2node)
       /\ _relation2id' = Some(P.relation2id) /\ _id2relation' = Some(P.id2relation)
       /\ triplets' = Some(P.triplets)
       /\ _num_nodes' = Some(P.num_nodes) /\ _num_rels' = Some(P.num_rels)
       /\ g_dgl' = BuildGraph(P.triplets, train_idx', P.num_nodes).g

\* C1 (as stated): on every embed call the registries, the triplet list and
\* the graph snapshot are rebuilt if and only if relation, use_feat or
\* embedding_dim differs from the stored value or no triplet list exists yet,
\* and are left exactly as they were otherwise.
C1_RebuildOnEveryCall ==
    [][ret'.op = "embed" =>
        /\ ret'.rebuilt <=> (ConfigChanged \/ triplets = None)
        /\ ret'.rebuilt => RebuiltFromData
        /\ ~(ConfigChanged \/ triplets = None) => UNCHANGED <<registryVars, triplets, g_dgl>>]_vars

\* C1 (amended): on every embed call that gets past the scoring-function
\* lookup of lines 312-315, preprocessing and graph construction run if and
\* only if relation, use_feat or embedding_dim differs from the stored value
\* or no triplet list exists yet; otherwise, and on a call that raises at the
\* lookup, registries, triplets and snapshot are left exactly as they were.
C1_RebuildIffChanged ==
    [][ret'.op = "embed" =>
        /\ ret'.outcome # "KeyError" =>
              /\ ret'.rebuilt <=> (ConfigChanged \/ triplets = None)
              /\ ret'.rebuilt => RebuiltFromData
        /\ (ret'.outcome = "KeyError" \/ ~(ConfigChanged \/ triplets = None)) =>
              /\ ~ret'.rebuilt
              /\ UNCHANGED <<registryVars, triplets, g_dgl>>]_vars

\* A later call (a trained model is present, this call ran no epoch) changed
\* the configuration and rebuilt registries, triplets and snapshot.
C1_Witness ==
    /\ ret.op = "embed" /\ ret.outcome = "returned"
    /\ ret.rebuilt /\ ret.requires_new_model /\ ret.epochs = 0
    /\ _embed_model # None /\ g_dgl # None

\* C2: a call with unchanged relation, use_feat and embedding_dim on a session
\* that holds a trained model optimizes that very model; a call that rebuilds
\* optimizes a freshly initialised model.
C2_WarmStart ==
    [][ret'.op = "embed" /\ ret'.outcome # "KeyError" =>
        /\ (~ConfigChanged /\ _embed_model # None) => ret'.optimized = _embed_model
        /\ ret'.rebuilt =>
              /\ ret'.optimized # None
              /\ Val(ret'.optimized).params = "init"]_vars

\* C3: train_idx and test_idx are disjoint sets of valid row indices of the
\* current triplet list and together hold every row index.
C3_SplitPartition ==
    triplets # None =>
        /\ train_idx # None /\ test_idx # None
        /\ Val(train_idx) \cap Val(test_idx) = {}
        /\ Val(train_idx) \cup Val(test_idx) = 0..(Len(Val(triplets)) - 1)

\* C4: an embed call with the stored relation column and the stored
\* train_split, on a session that has a split, leaves train_idx and test_idx
\* as they were and performs no random partition.
C4_SplitReuse ==
    [][(/\ ret'.op = "embed"
        /\ train_idx # None
        /\ _relation' = _relation
        /\ _train_split' = _train_split) =>
        /\ train_idx' = train_idx
        /\ test_idx' = test_idx
        /\ ~ret'.split]_vars

\* A call with the stored relation and train_split whose changed embedding
\* dimension made preprocessing run again, with the split reused.
C4_Witness ==
    /\ ret.op = "embed" /\ ret.outcome = "returned"
    /\ ret.rebuilt /\ ~ret.split
    /\ ret.differs = {} /\ ret.requires_new_model
    /\ train_idx # None /\ Val(train_idx) # {} /\ Val(test_idx) # {}

\* C5: an embed call with a train_split different from the stored one, on a
\* session that has a split, performs a new random partition whose sizes are
\* those of the new fraction.
C5_Resplit ==
    [][(/\ ret'.op = "embed" /\ ret'.outcome = "returned"
        /\ train_idx # None
        /\ _train_split' # _train_split) =>
        /\ ret'.split
        /\ Cardinality(Val(train_idx')) = TrainSize(Val(_train_split'), Len(Val(triplets')))
        /\ Cardinality(Val(test_idx')) =
              Len(Val(triplets')) - TrainSize(Val(_train_split'), Len(Val(triplets')))]_vars

\* C9: an embed call with evaluate set and train_split = 1, so that no triplet
\* is held out, completes every epoch and returns with the model and the
\* embedding snapshot stored.
C9_EvalSkipped ==
    (/\ ret.op = "embed" /\ ret.evaluate /\ ret.epochs >= 1
     /\ _train_split = Some(100) /\ ret.split /\ test_idx = Some({})) =>
        /\ ret.outcome = "returned"
        /\ ret.epochs_done = ret.epochs
        /\ _embed_model # None /\ _kg_embeddings # None

\* C6: the node registries are inverse bijections between the node set and
\* the dense ids 0..num_nodes-1, and the relation registries between the
\* relation labels of the filtered edges and 0..num_rels-1.
C6_RegistryBijection ==
    _node2id # None =>
        LET nodes == NodeSeries(_nodes, _node, _edges)
            rels == {e[Val(_relation)] : e \in Range(FilterEdges(_edges, nodes))}
            n2i == Val(_node2id)
            i2n == Val(_id2node)
            r2i == Val(_relation2id)
            i2r == Val(_id2relation)
        IN /\ DOMAIN n2i = Range(nodes)
           /\ \A n \in Range(nodes) : i2n[n2i[n]] = n
           /\ \A i \in DOMAIN i2n : n2i[i2n[i]] = i
           /\ Cardinality(DOMAIN n2i) = Cardinality(Range(nodes))
           /\ Val(_num_nodes) = Cardinality(Range(nodes))
           /\ {n2i[n] : n \in DOMAIN n2i} = 0..(Val(_num_nodes) - 1)
           /\ DOMAIN r2i = rels
           /\ \A r \in rels : i2r[r2i[r]] = r
           /\ \A i \in DOMAIN i2r : r2i[i2r[i]] = i
           /\ {r2i[r] : r \in DOMAIN r2i} = 0..(Val(_num_rels) - 1)

\* An item of the iterator that was produced without error.
ItemOk == item # None /\ Val(item).error = ""

\* C7 (as stated): _sample_neg returns 2*len(T) triplets, the first len(T) of
\* them T in order, with labels 1 for those and 0 for the rest, and the i-th
\* negative differs from the i-th positive in exactly the head or exactly
\* the tail, never both and never the relation.
C7_NegativeDiffers ==
    ItemOk =>
        LET T == Val(item).triplets
            A == Val(item).samples
            L == Val(item).labels
            n == Len(T)
        IN /\ Len(A) = 2 * n /\ Len(L) = 2 * n
           /\ \A i \in 1..n : A[i] = T[i] /\ L[i] = 1 /\ L[n + i] = 0
           /\ \A i \in 1..n :
                 /\ A[n + i][2] = T[i][2]
                 /\ \/ A[n + i][1] # T[i][1] /\ A[n + i][3] = T[i][3]
                    \/ A[n + i][1] = T[i][1] /\ A[n + i][3] # T[i][3]

\* C7 (amended): as above, except that the i-th negative differs from the
\* i-th positive in at most one of head and tail (the drawn id may be the id
\* it replaces), never in both and never in the relation, and the replaced
\* position holds an id below num_nodes.
C7_NegativeSampling ==
    ItemOk =>
        LET T == Val(item).triplets
            A == Val(item).samples
            L == Val(item).labels
            n == Len(T)
        IN /\ Len(A) = 2 * n /\ Len(L) = 2 * n
           /\ \A i \in 1..n : A[i] = T[i] /\ L[i] = 1 /\ L[n + i] = 0
           /\ \A i \in 1..n :
                 /\ A[n + i][2] = T[i][2]
                 /\ A[n + i][1] = T[i][1] \/ A[n + i][3] = T[i][3]
                 /\ A[n + i][1] \in 0..(Val(g_dgl).num_nodes - 1)
                 /\ A[n + i][3] \in 0..(Val(g_dgl).num_nodes - 1)

\* A batch of two positives whose first negative has a new head, and whose
\* second negative is equal to its positive.
C7_Witness ==
    /\ ItemOk
    /\ Len(Val(item).triplets) = 2
    /\ Val(item).samples[3][1] # Val(item).triplets[1][1]
    /\ Val(item).samples[3][3] = Val(item).triplets[1][3]
    /\ Val(item).samples[4] = Val(item).triplets[2]

C10_ThresholdFilter ==
    (result_df # None /\ Val(result_df).error = "") =>
        LET R == Val(result_df)
            Pass(c) == IF R.anomalous THEN R.prob[c] <= R.threshold
                                      ELSE R.prob[c] >= R.threshold
        IN /\ \A k \in DOMAIN R.ids : R.ids[k] \in Range(R.candidates) /\ Pass(R.ids[k])
           /\ \A c \in Range(R.candidates) : Pass(c) => c \in Range(R.ids)

\* C11: no row returned by predict_links has its source as predicted
\* destination, and with threshold 0.0 on a graph of more than one node every
\* input row of known source and relation has a returned row.
C11_SelfLoopExclusion ==
    (result_df # None /\ Val(result_df).error = "") =>
        LET R == Val(result_df)
        IN /\ \A k \in DOMAIN R.rows : R.rows[k][3] # R.rows[k][1]
           /\ \A k \in DOMAIN R.ids : R.ids[k][3] # R.ids[k][1]
           /\ (R.threshold = 0 /\ ~R.anomalous /\ Val(_num_nodes) > 1) =>
                 \A i \in DOMAIN R.test_df :
                    \E k \in DOMAIN R.rows :
                       /\ R.rows[k][1] = R.test_df[i].src
                       /\ R.rows[k][2] = R.test_df[i].rel

\* A call with threshold 0.0 on a graph of more than one node returned rows,
\* fewer than the rows times the destinations: self-loops were removed.
C11_Witness ==
    /\ result_df # None /\ Val(result_df).error = ""
    /\ Val(result_df).threshold = 0 /\ ~Val(result_df).anomalous
    /\ Val(_num_nodes) > 1
    /\ Len(Val(result_df).rows) >= 1
    /\ Len(Val(result_df).rows) <
          Len(Val(result_df).test_df) * Len(AllNodes(Val(_id2node), Val(_node2id)))

\* C12: a predict_links call on a frame with a row of unseen source or
\* relation label raises nothing, gives _score the candidates of the rows of
\* known labels only, and returns for those rows what it returns without
\* the unseen row.
C12_MissingIdentifiers ==
    (/\ result_df # None
     /\ KnownRows(Session, Val(result_df).test_df) # Val(result_df).test_df) =>
        LET R == Val(result_df)
            known == CandidateFrame(Session, KnownRows(Session, R.test_df))
        IN /\ R.error = ""
           /\ R.scored = known
           /\ SelectSeq(R.ids, LAMBDA c : c[1] # NaN /\ c[2] # NaN) = known


\* C13: a predict_links_all call completes, and the candidates it scores are
\* the cross-product of the three sets (the filter when given, every known id
\* otherwise) without the triplets whose source is their destination.
C13_CandidateSet ==
    result_df # None =>
        LET R == Val(result_df)
            all_nodes == {Val(_node2id)[n] : n \in DOMAIN Val(_node2id)}
            all_relations == {Val(_relation2id)[r] : r \in DOMAIN Val(_relation2id)}
            S == IF R.source = None THEN all_nodes ELSE Val(R.source)
            L == IF R.relation = None THEN all_relations ELSE Val(R.relation)
            D == IF R.destination = None THEN all_nodes ELSE Val(R.destination)
        IN /\ R.error = ""
           /\ R.scored = {c \in S \X L \X D : c[1] # c[3]}

\* C14: an embed call of at least one epoch with an unknown scoring-function
\* name, or on a graph of a single node, raises an error and performs no
\* training step.
C14_FailFast ==
    (/\ ret.op = "embed" /\ ret.epochs >= 1
     /\ ~ret.known_proto \/ (ret.rebuilt /\ _num_nodes = Some(1))) =>
        /\ ret.outcome # "returned"
        /\ ret.steps = 0

\* C15: an embed call whose epochs all complete performs num_steps training
\* steps in every epoch, one for each item the iterator produces, whatever
\* batch_size is.
C15_StepsPerEpoch ==
    (ret.op = "embed" /\ ret.outcome = "returned" /\ ret.epochs_done >= 1) =>
        /\ ret.steps = ret.epochs_done * ret.num_steps
        /\ ret.items = ret.steps

\* The registries, triplets and snapshot after the step are the ones the
\* data give for the relation column stored after the step.
BuiltForStoredRelation ==
    LET P == PreprocessRegistry(_nodes', _node', _edges', Val(_relation'))
    IN /\ _node2id' = Some(P.node2id) /\ _id2node' = Some(P.id2node)
       /\ _relation2id' = Some(P.relation2id) /\ _id2relation' = Some(P.id2relation)
       /\ triplets' = Some(P.triplets)
       /\ _num_nodes' = Some(P.num_nodes) /\ _num_rels' = Some(P.num_rels)
       /\ g_dgl' = BuildGraph(P.triplets, train_idx', P.num_nodes).g

\* C16: an embed call that does not return leaves the stored relation,
\* use_feat and embedding_dim as they were; when a call performs a training
\* step or returns, triplets, registries and snapshot are those of the stored
\* relation column, and the model it optimizes was created for the current
\* number of relations, the stored embedding dimension and the requested
\* scoring function.
C16_SessionConsistency ==
    [][ret'.op = "embed" =>
        /\ ret'.outcome # "returned" => UNCHANGED <<_relation, _use_feat, _kg_embed_dim>>
        /\ (ret'.steps > 0 \/ ret'.outcome = "returned") =>
              /\ BuiltForStoredRelation
              /\ ret'.optimized # None
              /\ Val(ret'.optimized).num_rels = Val(_num_rels')
              /\ Val(ret'.optimized).dim = Val(_kg_embed_dim')
              /\ Val(ret'.optimized).proto = ret'.proto]_vars

====
